---- MODULE Spec2Model ----
(***************************************************************************)
(* chaospy: the custom distribution constructor                            *)
(* (src/src/chaospy/distributions/constructor.py) and the triangle         *)
(* distribution (src/chaospy/distributions/collection/triangle.py).        *)
(*                                                                         *)
(* Spec     the constructor: one parent object whose slots may be          *)
(*          rebound, one generator built by construct(), the instances     *)
(*          the generator produces and the calls made on them.             *)
(* SpecTri  the triangle distribution: _cdf on a grid, Triangle.__init__   *)
(*          and the branch structure of _ttr, in exact rationals.          *)
(***************************************************************************)
EXTENDS Integers, Sequences, FiniteSets, TLC

VARIABLES
    parent,   \* the attributes of the object passed as parent=: slot name -> value
    built,    \* the last construct() call: its arguments and its outcome
    gen,      \* the generator construct() returned (the closure custom_distribution)
    insts,    \* the Dist instances the generator produced, in order of creation
    last,     \* the last generator invocation or operation call and its outcome
    tri       \* the last evaluation of the triangle module (SpecTri)

vars == <<parent, built, gen, insts, last, tri>>

(***************************************************************************)
(* Bounds                                                                  *)
(***************************************************************************)
\* Instances one generator produces.
MaxInst == 2
\* x and a range over 0/GridN .. GridN/GridN in the cdf evaluation.
GridN == 4
\* lower, midpoint, upper range over -ArgRange .. ArgRange.
ArgRange == 2
\* The shape parameter of _ttr ranges over 0/TtrGrid .. TtrGrid/TtrGrid.
TtrGrid == 1024
\* The recurrence orders asked of _ttr are 0 .. MaxOrder.
MaxOrder == 1

(***************************************************************************)
(* Python values.  Every value is a record of one shape:                   *)
(*   k = "fn"    a callable; fn names the underlying function and bound    *)
(*               lists the objects already bound in front of the call      *)
(*               arguments (types.MethodType binds one more)               *)
(*   k = "const" the lambda *args, **kwargs: string made from a str label  *)
(*   k = "str"   a string, k = "none" None: neither is callable            *)
(***************************************************************************)
Fn(name) == [k |-> "fn", fn |-> name, bound |-> <<>>]
Str(s) == [k |-> "str", fn |-> s, bound |-> <<>>]
NoneV == [k |-> "none", fn |-> "None", bound |-> <<>>]

\* callable(v), as types.MethodType requires of its first argument.
Callable(v) == v.k \in {"fn", "const"}

\* isinstance(v, str)
IsStr(v) == v.k = "str"

\* types.MethodType(function, obj): calling it calls function(obj, *args).
MethodType(function, obj) == [function EXCEPT !.bound = Append(@, obj)]

\* The arguments the underlying function receives when v(*args) is called.
Received(v, args) == v.bound \o args

\* The empty mapping ({} and, for defaults, None).
EmptyMap == [x \in {} |-> NoneV]

\* dict.update: m with every entry of n added or overwritten.
Update(m, n) == [x \in DOMAIN m \cup DOMAIN n |-> IF x \in DOMAIN n THEN n[x] ELSE m[x]]

\* dict.pop / del: m without key.
Without(m, key) == [x \in DOMAIN m \ {key} |-> m[x]]

(***************************************************************************)
(* The attribute registry                                                  *)
(***************************************************************************)
LEGAL_ATTRS_with_init ==
    ("cdf" :> "_cdf") @@ ("bnd" :> "_bnd") @@ ("pdf" :> "_pdf") @@
    ("ppf" :> "_ppf") @@ ("mom" :> "_mom") @@ ("ttr" :> "_ttr") @@
    ("fwd_cache" :> "_fwd_cache") @@ ("inv_cache" :> "_inv_cache") @@
    ("doc" :> "__doc__") @@ ("str" :> "_str") @@ ("init" :> "_init")

LEGAL_ATTRS ==
    ("cdf" :> "_cdf") @@ ("bnd" :> "_bnd") @@ ("pdf" :> "_pdf") @@
    ("ppf" :> "_ppf") @@ ("mom" :> "_mom") @@ ("ttr" :> "_ttr") @@
    ("fwd_cache" :> "_fwd_cache") @@ ("inv_cache" :> "_inv_cache") @@
    ("doc" :> "__doc__") @@ ("str" :> "_str")

(***************************************************************************)
(* construct(parent=None, defaults=None, **kwargs)                         *)
(***************************************************************************)
\* The object id of the parent; instances are numbered from 1.
ParentId == 0

\* hasattr(parent, slot); getattr(parent, slot) is parent[slot].
HasAttr(obj, slot) == slot \in DOMAIN obj

\* Lines 64-67 with the test "key not in kwargs" dropped: the parent's slot wins.
InheritParentWins(usep, obj, kwargs) ==
    IF ~usep THEN kwargs
    ELSE [key \in DOMAIN kwargs \cup {kk \in DOMAIN LEGAL_ATTRS : HasAttr(obj, LEGAL_ATTRS[kk])} |->
            IF key \in DOMAIN LEGAL_ATTRS /\ HasAttr(obj, LEGAL_ATTRS[key])
            THEN obj[LEGAL_ATTRS[key]] ELSE kwargs[key]]

\* Lines 64-67: every registry key the caller did not supply and whose slot
\* the parent exposes is copied from the parent.
Inherit(usep, obj, kwargs) ==
    IF ~usep THEN kwargs
    ELSE [key \in DOMAIN kwargs \cup {kk \in DOMAIN LEGAL_ATTRS : HasAttr(obj, LEGAL_ATTRS[kk])} |->
            IF key \in DOMAIN kwargs THEN kwargs[key] ELSE obj[LEGAL_ATTRS[key]]]

\* Lines 71-73: a str given as a string becomes a constant-returning lambda.
NormalizeStr(kwargs) ==
    IF "str" \in DOMAIN kwargs /\ IsStr(kwargs["str"])
    THEN [kwargs EXCEPT !["str"] = [k |-> "const", fn |-> @.fn, bound |-> <<>>]]
    ELSE kwargs

\* Lines 69-70 with the bnd assertion forgotten.
RequiredOnlyCdf == <<"cdf">>

\* Lines 69-70: the operations asserted present, in the order asserted.
Required == <<"cdf", "bnd">>

\* The first assertion of lines 69-70 that fails, "" when both hold.
MissingRequired(kwargs) ==
    IF \E i \in 1..Len(Required) : Required[i] \notin DOMAIN kwargs
    THEN Required[CHOOSE i \in 1..Len(Required) :
            /\ Required[i] \notin DOMAIN kwargs
            /\ \A j \in 1..(i-1) : Required[j] \in DOMAIN kwargs]
    ELSE ""

NoGen == [made |-> FALSE, kwargs |-> EmptyMap, defaults |-> EmptyMap, hasdoc |-> FALSE, doc |-> NoneV]

\* The outcome of construct: err is "" and gen the generator, or err is the
\* assertion that failed and no generator is returned.
construct(usep, obj, defaults, kwargs) ==
    IF \E key \in DOMAIN kwargs : key \notin DOMAIN LEGAL_ATTRS
    THEN [err |-> "is not legal input", gen |-> NoGen]
    ELSE LET kw1 == Inherit(usep, obj, kwargs) IN
         IF MissingRequired(kw1) # ""
         THEN [err |-> MissingRequired(kw1) \o " function must be defined", gen |-> NoGen]
         ELSE LET kw2 == NormalizeStr(kw1) IN
              IF \E key \in DOMAIN defaults : key \notin DOMAIN LEGAL_ATTRS
              THEN [err |-> "invalid default value", gen |-> NoGen]
              ELSE [err |-> "",
                    gen |-> [made |-> TRUE, kwargs |-> kw2, defaults |-> defaults,
                             hasdoc |-> "doc" \in DOMAIN kw2,
                             doc |-> IF "doc" \in DOMAIN kw2 THEN kw2["doc"] ELSE NoneV]]

(***************************************************************************)
(* The generator custom_distribution, called with keywords kws             *)
(***************************************************************************)
\* Dist(prm): a new instance holding the parameter mapping; its class
\* documentation is its only registry slot until the generator binds more.
Dist(id, prm) == [id |-> id, prm |-> prm, slots |-> EmptyMap]

\* Lines 85-87: every resolved operation is bound to the instance and stored
\* in its slot.
BindAll(g, dist) ==
    [dist EXCEPT !.slots =
        [slot \in {LEGAL_ATTRS[key] : key \in DOMAIN g.kwargs} |->
            LET key == CHOOSE kk \in DOMAIN g.kwargs : LEGAL_ATTRS[kk] = slot
            IN MethodType(g.kwargs[key], dist.id)]]

\* The outcome of one invocation: types.MethodType raises TypeError on a
\* value that is not callable, and then no instance is returned.
custom_distribution(g, id, kws) ==
    LET prm == Update(g.defaults, kws)
        dist == Dist(id, prm)
    IN IF \E key \in DOMAIN g.kwargs : ~Callable(g.kwargs[key])
       THEN [err |-> "TypeError", inst |-> dist]
       ELSE [err |-> "", inst |-> BindAll(g, dist)]

(***************************************************************************)
(* Inputs                                                                  *)
(***************************************************************************)
\* The values a caller passes for each keyword of construct.
KwChoices ==
    [cdf |-> {Fn("f_cdf")}, bnd |-> {Fn("f_bnd")}, pdf |-> {Fn("f_pdf")},
     doc |-> {Str("text"), Fn("f_doc")}, str |-> {Str("label")}, init |-> {Fn("f_init")}]

KwKeys == {"cdf", "bnd", "pdf", "doc", "str", "init"}

KwInputs ==
    UNION {
        {kw \in [ks -> UNION {KwChoices[key] : key \in ks}] :
            \A key \in ks : kw[key] \in KwChoices[key]} : ks \in SUBSET KwKeys}

\* defaults: None, a registry key, a key outside the registry.
DefaultsInputs == {EmptyMap, ("pdf" :> Str("d1")), ("lo" :> Str("d1"))}

\* The keyword parameters of a generator invocation.
KwsInputs == {EmptyMap, ("pdf" :> Str("v2"))}

\* A bound method of the parent object.
PMethod(name) == MethodType(Fn(name), ParentId)

\* The objects construct may be given as parent: __doc__ is an attribute of
\* every object; the operation slots may or may not be there.
ParentShapes ==
    {p \in UNION {[ {"__doc__"} \cup s -> {PMethod("p_cdf"), PMethod("p_bnd"), PMethod("p_pdf"),
                                          PMethod("p_doc"), Str("pdoc")}] :
                    s \in SUBSET {"_cdf", "_bnd", "_pdf"}} :
        /\ p["__doc__"] \in {Str("pdoc"), PMethod("p_doc")}
        /\ "_cdf" \in DOMAIN p => p["_cdf"] = PMethod("p_cdf")
        /\ "_bnd" \in DOMAIN p => p["_bnd"] = PMethod("p_bnd")
        /\ "_pdf" \in DOMAIN p => p["_pdf"] = PMethod("p_pdf")}

\* The slots rebound after construction and the values they are rebound to.
MutableSlots == {"_cdf", "_pdf"}
ReboundValues == {PMethod("p_new")}

NoBuilt == [usep |-> FALSE, psnap |-> EmptyMap, defaults |-> EmptyMap, kwargs |-> EmptyMap,
            called |-> FALSE, err |-> ""]
NoLast == [op |-> "none", err |-> "", inst |-> 0, key |-> "", fn |-> "", recv |-> <<>>, kws |-> EmptyMap]
NoTri == [op |-> "none"]

(***************************************************************************)
(* The constructor's state machine                                         *)
(***************************************************************************)
Init ==
    /\ parent \in ParentShapes
    /\ built = NoBuilt
    /\ gen = NoGen
    /\ insts = <<>>
    /\ last = NoLast
    /\ tri = NoTri

\* construct(parent, defaults, **kwargs), called once: the run follows the one
\* generator it returns.
Construct ==
    /\ ~built.called
    /\ \E usep \in BOOLEAN, defaults \in DefaultsInputs, kwargs \in KwInputs :
         LET out == construct(usep, parent, defaults, kwargs) IN
         /\ built' = [usep |-> usep, psnap |-> IF usep THEN parent ELSE EmptyMap,
                      defaults |-> defaults, kwargs |-> kwargs, called |-> TRUE, err |-> out.err]
         /\ gen' = out.gen
    /\ UNCHANGED <<parent, insts, last, tri>>

\* The generator is invoked with keywords kws.
Invoke ==
    /\ gen.made
    /\ Len(insts) < MaxInst
    /\ \E kws \in KwsInputs :
         LET out == custom_distribution(gen, Len(insts) + 1, kws) IN
         /\ insts' = IF out.err = "" THEN Append(insts, out.inst) ELSE insts
         /\ last' = [NoLast EXCEPT !.op = "invoke", !.err = out.err, !.kws = kws,
                                   !.inst = IF out.err = "" THEN out.inst.id ELSE 0]
    /\ UNCHANGED <<parent, built, gen, tri>>

\* setattr(parent, slot, value) or delattr(parent, slot), after the build.
MutateParent ==
    /\ gen.made
    /\ \E slot \in MutableSlots :
         \/ \E v \in ReboundValues : parent' = Update(parent, (slot :> v))
         \/ /\ slot \in DOMAIN parent
            /\ parent' = Without(parent, slot)
    /\ parent' # parent
    /\ UNCHANGED <<built, gen, insts, last, tri>>

\* getattr(instance, slot)("x"): an operation of an instance is called.
Call ==
    /\ \E i \in 1..Len(insts) : \E key \in {"cdf", "pdf", "doc"} :
         /\ LEGAL_ATTRS[key] \in DOMAIN insts[i].slots
         /\ LET v == insts[i].slots[LEGAL_ATTRS[key]] IN
            last' = [NoLast EXCEPT !.op = "call", !.inst = i, !.key = key, !.fn = v.fn,
                                   !.recv = Received(v, <<"x">>)]
    /\ UNCHANGED <<parent, built, gen, insts, tri>>

Next == Construct \/ Invoke \/ MutateParent \/ Call

Spec == Init /\ [][Next]_vars

(***************************************************************************)
(* Exact rational arithmetic for the triangle distribution: a number is    *)
(* [n |-> numerator, d |-> denominator] with d > 0, in lowest terms.       *)
(***************************************************************************)
Abs(i) == IF i < 0 THEN -i ELSE i

RECURSIVE GCD(_, _)
GCD(i, j) == IF j = 0 THEN i ELSE GCD(j, i % j)

\* The number n/d (d # 0) in lowest terms.
Rat(n, d) ==
    LET g == GCD(Abs(n), Abs(d))
        s == IF d < 0 THEN -1 ELSE 1
    IN [n |-> (s * n) \div g, d |-> (s * d) \div g]

RAdd(p, q) == Rat(p.n * q.d + q.n * p.d, p.d * q.d)
RSub(p, q) == Rat(p.n * q.d - q.n * p.d, p.d * q.d)
RMul(p, q) == Rat(p.n * q.n, p.d * q.d)
\* p / q, q # 0
RDiv(p, q) == Rat(p.n * q.d, p.d * q.n)
RLt(p, q) == p.n * q.d < q.n * p.d
RLeq(p, q) == p.n * q.d <= q.n * p.d
\* A comparison used as a number, as in a+(a == 0): True is 1, False is 0.
RBool(b) == IF b THEN Rat(1, 1) ELSE Rat(0, 1)
\* int(p): truncation toward zero.
RInt(p) == IF p.n >= 0 THEN p.n \div p.d ELSE -((-p.n) \div p.d)

(***************************************************************************)
(* class triangle(SimpleDistribution)                                      *)
(***************************************************************************)
\* triangle.__init__: the assertion 0 <= a <= 1 is commented out; the shape
\* parameter is stored as given.
triangle_init(a) == [cls |-> "triangle", a |-> a]

\* triangle._cdf at one element of xloc: numpy.where selects, element by
\* element, the first formula where xloc < a and the second elsewhere.
triangle_cdf(xloc, a) ==
    IF RLt(xloc, a)
    THEN RDiv(RMul(xloc, xloc), RAdd(a, RBool(a = Rat(0, 1))))
    ELSE RDiv(RSub(RSub(RMul(Rat(2, 1), xloc), RMul(xloc, xloc)), a),
              RAdd(RSub(Rat(1, 1), a), RBool(a = Rat(1, 1))))

triangle_lower(a) == Rat(0, 1)

triangle_upper(a) == Rat(1, 1)

\* The nodes-per-unit-width factor of _ttr.
Resolution == 1000

\* The clamped order max(1, int(1000*width)).
QuadOrderAtLeastOne(width) ==
    IF RInt(RMul(Rat(Resolution, 1), width)) < 1 THEN 1
    ELSE RInt(RMul(Rat(Resolution, 1), width))

\* int(1000*a) and int(1000*(1-a)): the order passed to quad_fejer for a
\* sub-interval of the given width.
QuadOrder(width) == RInt(RMul(Rat(Resolution, 1), width))

\* triangle._ttr(k, a): the primitives it calls, in order, with their arguments.
\* The results of beta_._ttr, quad_fejer and discretized_stieltjes are those
\* of the callee; ret names the expression returned.
triangle_ttr(k, a) ==
    IF a = Rat(0, 1)
    THEN [calls |-> <<[f |-> "beta_._ttr", k |-> k, a |-> 1, b |-> 2]>>, ret |-> "beta_._ttr"]
    ELSE IF a = Rat(1, 1)
    THEN [calls |-> <<[f |-> "beta_._ttr", k |-> k, a |-> 2, b |-> 1]>>, ret |-> "beta_._ttr"]
    ELSE [calls |-> <<
            [f |-> "quad_fejer", order |-> QuadOrder(a), lo |-> Rat(0, 1), hi |-> a],
            [f |-> "quad_fejer", order |-> QuadOrder(RSub(Rat(1, 1), a)), lo |-> a, hi |-> Rat(1, 1)],
            [f |-> "_pdf", nodes |-> <<"q1", "q2">>, weights |-> <<"w1", "w2">>, a |-> a],
            [f |-> "discretized_stieltjes", k |-> k, nodes |-> <<"q1", "q2">>,
             weights |-> "concatenate(w1,w2)*_pdf"]>>,
          ret |-> "coeffs[:, 0, -1]"]

(***************************************************************************)
(* class Triangle(LowerUpperDistribution)                                  *)
(***************************************************************************)
\* LowerUpperDistribution.__init__(dist, lower, upper, repr_args): the affine
\* wrapper owns the child and the two scalars and validates lower <= upper.
LowerUpperDistribution_init(dist, lower, upper, repr_args) ==
    IF upper < lower
    THEN [err |-> "ValidationError", dist |-> dist, lower |-> lower, upper |-> upper,
          repr_args |-> repr_args]
    ELSE [err |-> "", dist |-> dist, lower |-> lower, upper |-> upper, repr_args |-> repr_args]

\* Triangle.__init__(lower, midpoint, upper) on numbers: the local midpoint is
\* rebound to the normalized value before the child is built and before
\* _repr_args is stored; a zero width raises ZeroDivisionError.
Triangle_init(lower, midpoint, upper) ==
    IF upper - lower = 0
    THEN [err |-> "ZeroDivisionError", dist |-> triangle_init(Rat(0, 1)), lower |-> lower,
          upper |-> upper, repr_args |-> <<>>]
    ELSE LET mid == RDiv(RMul(Rat(midpoint - lower, 1), Rat(1, 1)), Rat(upper - lower, 1))
             base == LowerUpperDistribution_init(triangle_init(mid), lower, upper, <<mid>>)
         IN IF base.err # "" THEN base
            ELSE [base EXCEPT !.repr_args = <<Rat(lower, 1), mid, Rat(upper, 1)>>]

(***************************************************************************)
(* The triangle module's state machine: one evaluation of a pure function  *)
(* per run, on inputs drawn from the grids.                                *)
(***************************************************************************)
InitTri ==
    /\ parent = [x \in {"__doc__"} |-> Str("pdoc")]
    /\ built = NoBuilt
    /\ gen = NoGen
    /\ insts = <<>>
    /\ last = NoLast
    /\ tri = NoTri

\* distribution._cdf(xloc, a) with xloc = linspace(0, 1, GridN+1), together
\* with the bounds _lower(a) and _upper(a).
EvalCdf ==
    /\ tri.op = "none"
    /\ \E j \in 0..GridN :
         LET a == Rat(j, GridN) IN
         tri' = [op |-> "cdf", a |-> a,
                 xloc |-> [i \in 0..GridN |-> Rat(i, GridN)],
                 out |-> [i \in 0..GridN |-> triangle_cdf(Rat(i, GridN), a)],
                 lower |-> triangle_lower(a), upper |-> triangle_upper(a)]
    /\ UNCHANGED <<parent, built, gen, insts, last>>

\* Triangle(lower, midpoint, upper)
NewTriangle ==
    /\ tri.op = "none"
    /\ \E lower \in -ArgRange..ArgRange, midpoint \in -ArgRange..ArgRange,
          upper \in -ArgRange..ArgRange :
         tri' = [op |-> "Triangle", args |-> <<lower, midpoint, upper>>,
                 out |-> Triangle_init(lower, midpoint, upper)]
    /\ UNCHANGED <<parent, built, gen, insts, last>>

\* distribution._ttr(k, a)
EvalTtr ==
    /\ tri.op = "none"
    /\ \E k \in 0..MaxOrder, j \in 0..TtrGrid :
         LET a == Rat(j, TtrGrid) IN
         tri' = [op |-> "ttr", k |-> k, a |-> a, out |-> triangle_ttr(k, a)]
    /\ UNCHANGED <<parent, built, gen, insts, last>>

NextTri == EvalCdf \/ NewTriangle \/ EvalTtr

SpecTri == InitTri /\ [][NextTri]_vars

(***************************************************************************)
(* Properties of the constructor (checked under Spec)                      *)
(***************************************************************************)
\* The registry names of the specification's section 4.1.
RegistryNames ==
    {"cdf", "bnd", "pdf", "ppf", "mom", "ttr", "fwd_cache", "inv_cache", "doc", "str"}

ConfigErrors ==
    {"is not legal input", "cdf function must be defined", "bnd function must be defined",
     "invalid default value"}

MissingErrors == {"cdf function must be defined", "bnd function must be defined"}

\* key is supplied by the caller or, with a parent, exposed by the parent as
\* of the construct call.
PresentAfterFallback(key) ==
    \/ key \in DOMAIN built.kwargs
    \/ built.usep /\ LEGAL_ATTRS[key] \in DOMAIN built.psnap

\* The value construct resolves for key: the caller's, else the parent's as
\* of the construct call.
ResolvedAtBuild(key) ==
    IF key \in DOMAIN built.kwargs THEN built.kwargs[key] ELSE built.psnap[LEGAL_ATTRS[key]]

\* C1: construct returns a generator only if every key of operations and of
\* defaults is a registry name; with any key of either mapping outside the
\* registry it fails with a configuration error and returns no generator,
\* whatever the parent and the other keys are.
C1_OnlyRegistryKeys ==
    built.called =>
        /\ (\E key \in DOMAIN built.kwargs \cup DOMAIN built.defaults : key \notin RegistryNames)
              => (built.err \in ConfigErrors /\ ~gen.made)
        /\ gen.made =>
              /\ built.err = ""
              /\ \A key \in DOMAIN built.kwargs \cup DOMAIN built.defaults : key \in RegistryNames

\* C1 witness: with a parent and cdf and bnd supplied, a defaults key outside
\* the registry alone makes construct fail.
C1_Witness ==
    /\ built.called /\ built.usep
    /\ {"cdf", "bnd"} \subseteq DOMAIN built.kwargs
    /\ DOMAIN built.kwargs \subseteq RegistryNames
    /\ "lo" \in DOMAIN built.defaults
    /\ built.err = "invalid default value" /\ ~gen.made

\* Every instance a generator produced has a cdf and a bnd entry.
InstancesHaveCdfBnd ==
    \A i \in 1..Len(insts) : {"_cdf", "_bnd"} \subseteq DOMAIN insts[i].slots

\* C2 as stated: construct fails with a missing-required-operation error
\* exactly when cdf or bnd is absent after the parent fallback, and every
\* instance of a returned generator has a cdf and a bnd entry.
C2_AsStated ==
    /\ built.called =>
          (built.err \in MissingErrors
              <=> (~PresentAfterFallback("cdf") \/ ~PresentAfterFallback("bnd")))
    /\ InstancesHaveCdfBnd

\* C2 amended: when every key of operations is a registry name, construct
\* fails with a missing-required-operation error exactly when cdf or bnd is
\* absent after the parent fallback (with a key outside the registry it has
\* failed before, with the illegal-input error); every instance of a returned
\* generator has a cdf and a bnd entry.
C2_RequiredAfterFallback ==
    /\ (built.called /\ DOMAIN built.kwargs \subseteq RegistryNames) =>
          (built.err \in MissingErrors
              <=> (~PresentAfterFallback("cdf") \/ ~PresentAfterFallback("bnd")))
    /\ gen.made => (PresentAfterFallback("cdf") /\ PresentAfterFallback("bnd"))
    /\ InstancesHaveCdfBnd

\* C2 witness: cdf comes from the parent, bnd from nowhere, and construct
\* fails on the bnd assertion.
C2_Witness ==
    /\ built.called /\ built.usep
    /\ "cdf" \notin DOMAIN built.kwargs /\ "_cdf" \in DOMAIN built.psnap
    /\ "bnd" \notin DOMAIN built.kwargs /\ "_bnd" \notin DOMAIN built.psnap
    /\ built.err = "bnd function must be defined" /\ ~gen.made

\* C3: with only cdf and bnd supplied together with a parent, construct
\* succeeds for every parent, invoking the generator does not fail, and the
\* instance holds the supplied cdf and bnd and, for every other registry key
\* whose slot the parent exposes, the parent's operation.
C3_CdfBndWithParent ==
    (/\ built.called /\ built.usep
     /\ DOMAIN built.kwargs = {"cdf", "bnd"}
     /\ built.defaults = EmptyMap) =>
        /\ built.err = "" /\ gen.made
        /\ last.op = "invoke" => last.err = ""
        /\ \A i \in 1..Len(insts) : \A key \in RegistryNames :
              PresentAfterFallback(key) =>
                 /\ LEGAL_ATTRS[key] \in DOMAIN insts[i].slots
                 /\ insts[i].slots[LEGAL_ATTRS[key]] = MethodType(ResolvedAtBuild(key), i)

\* C4: a doc supplied to construct is attached to the generator and not to
\* instances: the generator carries it, invoking the generator succeeds and
\* the instance's own documentation slot is not set.
C4_DocOnGeneratorOnly ==
    (built.called /\ built.err = "" /\ "doc" \in DOMAIN built.kwargs) =>
        /\ gen.hasdoc /\ gen.doc = built.kwargs["doc"]
        /\ last.op = "invoke" => last.err = ""
        /\ \A i \in 1..Len(insts) : "__doc__" \notin DOMAIN insts[i].slots

\* C8: the generator's table is resolved when construct returns (the caller's
\* operation if given, else the parent's slot value as of the construct call,
\* else absent; a str label as its constant function), and every instance is
\* bound to those operations, whatever the parent's slots have become since.
C8_EagerInheritance ==
    gen.made =>
        /\ DOMAIN gen.kwargs = {key \in RegistryNames : PresentAfterFallback(key)}
        /\ \A key \in DOMAIN gen.kwargs :
              IF ResolvedAtBuild(key).k = "str" /\ key = "str"
              THEN gen.kwargs[key] = [ResolvedAtBuild(key) EXCEPT !.k = "const"]
              ELSE gen.kwargs[key] = ResolvedAtBuild(key)
        /\ \A i \in 1..Len(insts) :
              /\ DOMAIN insts[i].slots = {LEGAL_ATTRS[key] : key \in DOMAIN gen.kwargs}
              /\ \A key \in DOMAIN gen.kwargs :
                    /\ insts[i].slots[LEGAL_ATTRS[key]].fn = gen.kwargs[key].fn
                    /\ insts[i].slots[LEGAL_ATTRS[key]].bound = Append(gen.kwargs[key].bound, i)

\* C8 witness: pdf was inherited, cdf supplied; the parent's _pdf and _cdf
\* have both been rebound since; a call of an instance's pdf still reaches the
\* parent's build-time function.
C8_Witness ==
    /\ gen.made /\ built.usep
    /\ "pdf" \notin DOMAIN built.kwargs /\ "cdf" \in DOMAIN built.kwargs
    /\ "_pdf" \in DOMAIN built.psnap /\ "_pdf" \in DOMAIN parent /\ "_cdf" \in DOMAIN parent
    /\ parent["_pdf"] # built.psnap["_pdf"]
    /\ parent["_cdf"].fn = "p_new"
    /\ Len(insts) = 2
    /\ last.op = "call" /\ last.inst = 2 /\ last.key = "pdf"
    /\ last.fn = built.psnap["_pdf"].fn

\* C9: every operation of an instance, supplied or inherited, is called with
\* that very instance as the function's first argument, followed by the call
\* arguments; every invocation makes a fresh instance whose parameters are
\* the defaults overridden by its own call-time values.
C9_BoundToInstance ==
    /\ last.op = "call" => last.recv = <<last.inst, "x">>
    /\ \A i \in 1..Len(insts) : insts[i].id = i
    /\ (last.op = "invoke" /\ last.err = "") =>
          insts[last.inst].prm = Update(built.defaults, last.kws)

(***************************************************************************)
(* Properties of the triangle distribution (checked under SpecTri)         *)
(***************************************************************************)
\* C5: for every a in [0, 1], a = 0 and a = 1 included, cdf(0) = 0,
\* cdf(1) = 1 and cdf is non-decreasing over [0, 1].
C5_CdfEndpointsMonotone ==
    tri.op = "cdf" =>
        /\ tri.out[0] = tri.lower
        /\ tri.out[GridN] = tri.upper
        /\ \A i \in 0..GridN : \A j \in i..GridN : RLeq(tri.out[i], tri.out[j])

\* The triple violates lower <= midpoint <= upper.
Unordered(lower, midpoint, upper) == lower > upper \/ midpoint < lower \/ midpoint > upper

\* C6: Triangle(lower, midpoint, upper) fails with a validation error, and
\* builds no distribution, for every triple that violates
\* lower <= midpoint <= upper.
C6_OrderingValidated ==
    (tri.op = "Triangle" /\ Unordered(tri.args[1], tri.args[2], tri.args[3])) =>
        tri.out.err # ""

\* C7: after Triangle(lower, midpoint, upper) the display arguments are
\* [lower, midpoint, upper] as passed, and the child triangle has
\* a = (midpoint - lower) / (upper - lower).
C7_DisplayArgsAsPassed ==
    (tri.op = "Triangle" /\ tri.out.err = "") =>
        /\ Len(tri.out.repr_args) = 3
        /\ \A i \in 1..3 : tri.out.repr_args[i] = [n |-> tri.args[i], d |-> 1]
        /\ tri.out.dist.a.n * (tri.args[3] - tri.args[1])
              = (tri.args[2] - tri.args[1]) * tri.out.dist.a.d

\* The calls of quad_fejer among the calls of one _ttr evaluation.
QuadCalls == {i \in 1..Len(tri.out.calls) : tri.out.calls[i].f = "quad_fejer"}
BetaCalls == {i \in 1..Len(tri.out.calls) : tri.out.calls[i].f = "beta_._ttr"}
StieltjesCalls == {i \in 1..Len(tri.out.calls) : tri.out.calls[i].f = "discretized_stieltjes"}

\* n = floor(1000 * w) for the rational w, and the interval is (lo, hi).
IsFloorOrder(c, w, lo, hi) ==
    /\ c.order * w.d <= 1000 * w.n /\ 1000 * w.n < (c.order + 1) * w.d
    /\ c.lo = lo /\ c.hi = hi

\* The branch structure of _ttr: closed form for a = 0 and a = 1, quadrature
\* on (0, a) and (a, 1) with orders floor(1000 a), floor(1000 (1-a)) otherwise.
TtrStructure ==
    /\ tri.a = [n |-> 0, d |-> 1] =>
          /\ tri.out.calls = <<[f |-> "beta_._ttr", k |-> tri.k, a |-> 1, b |-> 2]>>
          /\ tri.out.ret = "beta_._ttr"
    /\ tri.a = [n |-> 1, d |-> 1] =>
          /\ tri.out.calls = <<[f |-> "beta_._ttr", k |-> tri.k, a |-> 2, b |-> 1]>>
          /\ tri.out.ret = "beta_._ttr"
    /\ (0 < tri.a.n /\ tri.a.n < tri.a.d) =>
          /\ BetaCalls = {} /\ QuadCalls = {1, 2} /\ StieltjesCalls = {4}
          /\ IsFloorOrder(tri.out.calls[1], tri.a, [n |-> 0, d |-> 1], tri.a)
          /\ IsFloorOrder(tri.out.calls[2], [n |-> tri.a.d - tri.a.n, d |-> tri.a.d],
                          tri.a, [n |-> 1, d |-> 1])
          /\ tri.out.calls[3].f = "_pdf" /\ tri.out.calls[3].a = tri.a
          /\ tri.out.calls[3].nodes = <<"q1", "q2">>
          /\ tri.out.calls[4].k = tri.k
          /\ tri.out.calls[4].weights = "concatenate(w1,w2)*_pdf"
          /\ tri.out.ret = "coeffs[:, 0, -1]"

\* C10 as stated: the structure above, with both node counts at least 1 for
\* every 0 < a < 1.
C10_AsStated ==
    tri.op = "ttr" =>
        /\ TtrStructure
        /\ (0 < tri.a.n /\ tri.a.n < tri.a.d) =>
              (tri.out.calls[1].order >= 1 /\ tri.out.calls[2].order >= 1)

\* C10 amended: _ttr returns the Beta(1, 2) recurrence for a = 0 and the
\* Beta(2, 1) recurrence for a = 1 without quadrature; for every 0 < a < 1 it
\* runs quad_fejer on (0, a) and (a, 1) with orders floor(1000 a) and
\* floor(1000 (1-a)), which are 0 for a sub-interval narrower than 1/1000,
\* weights by the density and returns the order-k Stieltjes pair.
C10_TtrBranches ==
    tri.op = "ttr" =>
        /\ TtrStructure
        /\ (0 < tri.a.n /\ 1000 * tri.a.n < tri.a.d) => tri.out.calls[1].order = 0
        /\ (tri.a.n < tri.a.d /\ 1000 * (tri.a.d - tri.a.n) < tri.a.d) =>
              tri.out.calls[2].order = 0

\* C10 witness: a non-degenerate a below 1/1000, where the first
\* sub-interval gets order 0 and the second 999.
C10_Witness ==
    /\ tri.op = "ttr" /\ tri.k = 1
    /\ 0 < tri.a.n /\ 1000 * tri.a.n < tri.a.d
    /\ Len(tri.out.calls) = 4
    /\ tri.out.calls[1].order = 0 /\ tri.out.calls[2].order = 999

====
